---- MODULE Spec2Model ----
(***************************************************************************)
(* Model of src/electrum/discovery.rs: the DiscoveryManager with its       *)
(* health check queue (a BinaryHeap of HealthCheck jobs), the registry of  *)
(* healthy servers, admission of announced and default servers, and the    *)
(* health check cycle run by the "discovery-jobs" thread.                  *)
(*                                                                         *)
(* Time is the value of Instant::now() in seconds.  It advances in steps   *)
(* of TimeStep, half of HEALTH_CHECK_FREQ, so that a job can be seen both  *)
(* less than and at least HEALTH_CHECK_FREQ after its last check.          *)
(***************************************************************************)
EXTENDS Integers, Sequences, FiniteSets, Bags, TLC

VARIABLES
    queue,          \* DiscoveryManager.queue: the BinaryHeap, as a bag of jobs
    healthy,        \* DiscoveryManager.healthy: ServerAddr -> Server
    tor_proxy,      \* DiscoveryManager.tor_proxy: Option<SocketAddr>
    now,            \* the clock read by Instant::now() and Instant::elapsed()
    pc,             \* position of the thread inside run_health_check
    health_check,   \* run_health_check's local: the popped job (None outside)
    was_healthy,    \* run_health_check's local
    checked,        \* run_health_check's local: the value of check_server
    gave_up,        \* the job of the "giving up on" log line of the last cycle
    ret,            \* the last admission call: its result, warnings and jobs
    locks           \* the RwLocks of queue and healthy: who holds a guard, and
                    \* where each caller of a public method is in its call

vars == <<queue, healthy, tor_proxy, now, pc, health_check, was_healthy, checked, gave_up, ret,
          locks>>

----------------------------------------------------------------------------
(* Program constants *)

HEALTH_CHECK_FREQ == 3600
MAX_CONSECUTIVE_FAILURES == 24
MAX_QUEUE_SIZE == 500
MAX_SERVERS_PER_REQUEST == 3
MAX_SERVICES_PER_REQUEST == 6
MAX_HOSTNAME_LEN == 100
JOB_INTERVAL == 1

(* Bounds of the model *)

\* the clock of Spec stops at MaxTime
MaxTime == 3600
\* the most jobs Spec lets the admissions put in the queue
MaxJobs == 3
\* the clock of SpecRetry stops at MaxTimeRetry
MaxTimeRetry == 86400

TimeStep == HEALTH_CHECK_FREQ \div 2

----------------------------------------------------------------------------
(* Option and Result *)

None == <<>>
Some(x) == <<x>>
IsSome(o) == o # None
Unwrap(o) == o[1]

Ok(x) == <<"Ok", x>>
Err(e) == <<"Err", e>>
IsOk(r) == r[1] = "Ok"

\* Option<T>::cmp: None is less than every Some, two Some compare their values
OptionCmp(a, b) ==
    IF a = None /\ b = None THEN "Equal"
    ELSE IF a = None THEN "Less"
    ELSE IF b = None THEN "Greater"
    ELSE IF Unwrap(a) < Unwrap(b) THEN "Less"
    ELSE IF Unwrap(a) > Unwrap(b) THEN "Greater"
    ELSE "Equal"

\* Ordering::reverse
Reverse(o) ==
    IF o = "Less" THEN "Greater" ELSE IF o = "Greater" THEN "Less" ELSE "Equal"

----------------------------------------------------------------------------
(* ServerAddr, Service, ServerFeatures *)

Clearnet(ip) == <<"Clearnet", ip>>
Onion(hostname) == <<"Onion", hostname>>
IsClearnet(addr) == addr[1] = "Clearnet"

Tcp(port) == <<"Tcp", port>>
Ssl(port) == <<"Ssl", port>>

\* the hostnames of the model, with what the string functions of the code
\* (to_lowercase, len, ends_with(".onion"), IpAddr::from_str) give for each
LongHostname == "aaaaaaaaaaaaaaaaaaaaaaaaaaaaaaaaaaaaaaaaaaaaaaaaaaaaaaaaaaaaaaaaaaaaaaaaaaaaaaaaaaaaaaaaaaaaa.example"

HostnameTable ==
    [h \in {"a.example", "A.Example", "b.example", "x.onion", "X.Onion", "1.1.1.1",
            "2.2.2.2", LongHostname} |->
        CASE h = "a.example" -> [lower |-> "a.example", len |-> 9, onion |-> FALSE, ip |-> None]
          [] h = "A.Example" -> [lower |-> "a.example", len |-> 9, onion |-> FALSE, ip |-> None]
          [] h = "b.example" -> [lower |-> "b.example", len |-> 9, onion |-> FALSE, ip |-> None]
          [] h = "x.onion"   -> [lower |-> "x.onion", len |-> 7, onion |-> TRUE, ip |-> None]
          [] h = "X.Onion"   -> [lower |-> "x.onion", len |-> 7, onion |-> FALSE, ip |-> None]
          [] h = "1.1.1.1"   -> [lower |-> "1.1.1.1", len |-> 7, onion |-> FALSE, ip |-> Some("1.1.1.1")]
          [] h = "2.2.2.2"   -> [lower |-> "2.2.2.2", len |-> 7, onion |-> FALSE, ip |-> Some("2.2.2.2")]
          [] h = LongHostname -> [lower |-> LongHostname, len |-> 101, onion |-> FALSE, ip |-> None]]

Hostnames == DOMAIN HostnameTable
IpAddrs == {"1.1.1.1", "2.2.2.2"}

ToLowercase(h) == HostnameTable[h].lower
HostnameLen(h) == HostnameTable[h].len
EndsWithOnion(h) == HostnameTable[h].onion
IpAddrFromStr(h) == HostnameTable[h].ip

\* what to_socket_addrs().next() may give for a name: an address, or none
DnsAnswers == {None} \cup {Some(ip) : ip \in IpAddrs}

\* ServerAddr::resolve; dns is the answer of the name lookup, were it made
ServerAddrResolve(host, dns) ==
    IF EndsWithOnion(host) THEN Ok(Onion(host))
    ELSE IF IsSome(IpAddrFromStr(host)) THEN Ok(Clearnet(Unwrap(IpAddrFromStr(host))))
    ELSE IF IsSome(dns) THEN Ok(Clearnet(Unwrap(dns)))
    ELSE Err("hostname resolution failed")

\* our_genesis_hash and our_version of the manager, as the test builds it
our_genesis_hash == "testnet"
our_version == <<1, 4>>

\* ProtocolVersion's ordering: major, then minor
VersionLeq(a, b) == a[1] < b[1] \/ (a[1] = b[1] /\ a[2] <= b[2])

ServerFeaturesOf(genesis, pmin, pmax, hash, hosts) ==
    [genesis_hash |-> genesis, protocol_min |-> pmin, protocol_max |-> pmax,
     hash_function |-> hash, hosts |-> hosts]

NoHosts == [h \in {} |-> None]

\* DiscoveryManager::verify_compatibility
verify_compatibility(features) ==
    IF features.genesis_hash # our_genesis_hash THEN Err("incompatible networks")
    ELSE IF ~(VersionLeq(features.protocol_min, our_version)
              /\ VersionLeq(our_version, features.protocol_max))
        THEN Err("incompatible protocol versions")
    ELSE IF features.hash_function # "sha256" THEN Err("incompatible hash function")
    ELSE Ok("unit")

----------------------------------------------------------------------------
(* HealthCheck *)

\* HealthCheck::new
HealthCheckNew(addr, hostname, service, added_by) ==
    [addr |-> addr, hostname |-> hostname, service |-> service,
     is_default |-> (added_by = None), added_by |-> added_by,
     last_check |-> None, last_healthy |-> None, consecutive_failures |-> 0]

\* HealthCheck::is_healthy
is_healthy(self) ==
    IF IsSome(self.last_check) /\ IsSome(self.last_healthy)
    THEN Unwrap(self.last_check) = Unwrap(self.last_healthy)
    ELSE FALSE

\* mutant of should_retry: one failure too many is allowed
ShouldRetryOffByOne(self) ==
    (IsSome(self.last_healthy) \/ self.is_default)
        /\ self.consecutive_failures <= MAX_CONSECUTIVE_FAILURES

\* mutant of should_retry: a job that was never healthy is retried too
ShouldRetryAnyJob(self) == self.consecutive_failures < MAX_CONSECUTIVE_FAILURES

\* HealthCheck::should_retry
should_retry(self) ==
    (IsSome(self.last_healthy) \/ self.is_default)
        /\ self.consecutive_failures < MAX_CONSECUTIVE_FAILURES

\* mutant of HealthCheckCmp: the reverse() is forgotten
HealthCheckCmpNoReverse(self, other) == OptionCmp(self.last_check, other.last_check)

\* impl Ord for HealthCheck
HealthCheckCmp(self, other) == Reverse(OptionCmp(self.last_check, other.last_check))

\* mutant of Elapsed: the two instants are exchanged (a duration is never
\* negative: the difference saturates at zero)
ElapsedExchanged(t) == IF t - now > 0 THEN t - now ELSE 0

\* Instant::elapsed
Elapsed(t) == now - t

----------------------------------------------------------------------------
(* BinaryHeap<HealthCheck>: a bag; peek and pop give a greatest element,    *)
(* any of them when several compare Equal                                   *)

HeapLen(q) == BagCardinality(q)
HeapPush(q, job) == q (+) SetToBag({job})
HeapRemove(q, job) == q (-) SetToBag({job})
HeapGreatest(q) ==
    {j \in BagToSet(q) : \A k \in BagToSet(q) : HealthCheckCmp(j, k) # "Less"}

RECURSIVE HeapExtend(_, _)
HeapExtend(q, jobs) ==
    IF jobs = <<>> THEN q ELSE HeapExtend(HeapPush(q, Head(jobs)), Tail(jobs))

----------------------------------------------------------------------------
(* Server and the healthy registry *)

\* Server::new
ServerNew(hostname, features) ==
    [services |-> {}, hostname |-> hostname, features |-> features]

MapPut(m, k, v) == [x \in DOMAIN m \cup {k} |-> IF x = k THEN v ELSE m[x]]
MapRemove(m, k) == [x \in DOMAIN m \ {k} |-> m[x]]

\* DiscoveryManager::save_healthy_service: the registry after the call, and
\* whether its assert! failed (the map is then as the call found it)
save_healthy_service(h, job, features) ==
    LET server == IF job.addr \in DOMAIN h THEN h[job.addr]
                  ELSE ServerNew(job.hostname, features)
        inserted == job.service \notin server.services
    IN  [panicked |-> ~inserted,
         healthy |-> MapPut(h, job.addr, [server EXCEPT !.services = @ \cup {job.service}])]

\* mutant of remove_unhealthy_service: an entry left without services stays
remove_unhealthy_service_keeps_entry(h, job) ==
    IF job.addr \in DOMAIN h
    THEN LET server == h[job.addr]
             removed == job.service \in server.services
             services == server.services \ {job.service}
         IN  [panicked |-> ~removed,
              healthy |-> IF ~removed THEN h
                          ELSE MapPut(h, job.addr, [server EXCEPT !.services = services])]
    ELSE [panicked |-> TRUE, healthy |-> h]

\* DiscoveryManager::get_servers: the ServerEntry values, with the version
\* and the services of feature_strs
get_servers(h) ==
    {<<a, h[a].hostname, <<h[a].features.protocol_max, h[a].services>>>> : a \in DOMAIN h}

\* mutant of remove_unhealthy_service: the server goes with its service
remove_unhealthy_service_removes_server(h, job) ==
    IF job.addr \in DOMAIN h
    THEN [panicked |-> job.service \notin h[job.addr].services,
          healthy |-> IF job.service \notin h[job.addr].services THEN h
                      ELSE MapRemove(h, job.addr)]
    ELSE [panicked |-> TRUE, healthy |-> h]

\* DiscoveryManager::remove_unhealthy_service: the registry after the call,
\* and whether its assert! or its unreachable! was hit
remove_unhealthy_service(h, job) ==
    IF job.addr \in DOMAIN h
    THEN LET server == h[job.addr]
             removed == job.service \in server.services
             services == server.services \ {job.service}
         IN  [panicked |-> ~removed,
              healthy |-> IF ~removed THEN h
                          ELSE IF services = {} THEN MapRemove(h, job.addr)
                          ELSE MapPut(h, job.addr, [server EXCEPT !.services = services])]
    ELSE [panicked |-> TRUE, healthy |-> h]

----------------------------------------------------------------------------
(* DiscoveryManager::check_server.  conn is what the peer answers to the    *)
(* connection and to server.features: Err, or Ok(features)                  *)

\* mutant of check_server: the features are not verified
check_server_unverified(addr, hostname, service, proxy, conn) ==
    IF ~IsClearnet(addr) /\ service[1] = "Ssl" THEN Err("ssl over onion is unsupported")
    ELSE IF ~IsClearnet(addr) /\ proxy = None
        THEN Err("no tor proxy configured, onion hosts are unsupported")
    ELSE conn

\* mutant of check_server: every onion service is reached as the peer answers
check_server_any_onion(addr, hostname, service, proxy, conn) ==
    IF ~IsOk(conn) THEN conn
    ELSE IF ~IsOk(verify_compatibility(conn[2])) THEN verify_compatibility(conn[2])
    ELSE Ok(conn[2])

check_server(addr, hostname, service, proxy, conn) ==
    IF ~IsClearnet(addr) /\ service[1] = "Ssl" THEN Err("ssl over onion is unsupported")
    ELSE IF ~IsClearnet(addr) /\ proxy = None
        THEN Err("no tor proxy configured, onion hosts are unsupported")
    ELSE IF ~IsOk(conn) THEN conn
    ELSE IF ~IsOk(verify_compatibility(conn[2])) THEN verify_compatibility(conn[2])
    ELSE Ok(conn[2])

----------------------------------------------------------------------------
(* The RwLocks around queue and healthy (lines 30 and 33).  A guard is      *)
(* dropped at the end of the statement or of the function that took it.     *)

\* the thread of spawn_jobs_thread
JobsThread == "discovery-jobs"

\* the threads that call the public methods
Callers == {"rpc1", "rpc2"}

Unlocked == [writer |-> None, readers |-> {}]

NoLocks == [queue |-> Unlocked, healthy |-> Unlocked, at |-> [t \in Callers |-> "none"]]

\* RwLock::read and RwLock::write return when no other guard forbids it
CanRead(l, lock) == l[lock].writer = None
CanWrite(l, lock) == l[lock].writer = None /\ l[lock].readers = {}

LockRead(l, lock, t) == [l EXCEPT ![lock].readers = @ \cup {t}]
LockWrite(l, lock, t) == [l EXCEPT ![lock].writer = Some(t)]

\* the locks thread t holds a guard of
Holds(l, t) == {lock \in {"queue", "healthy"} : l[lock].writer = Some(t) \/ t \in l[lock].readers}

\* mutant of Unlock: the write guard outlives its statement or its call
UnlockKept(l, lock) ==
    [l EXCEPT !.at = [t \in Callers |-> IF l[lock].writer = Some(t) THEN "none" ELSE @[t]]]

\* the write guard of lock is dropped; a caller that held it has returned
Unlock(l, lock) ==
    [l EXCEPT ![lock].writer = None,
              !.at = [t \in Callers |-> IF l[lock].writer = Some(t) THEN "none" ELSE @[t]]]

\* the read guard of thread t is dropped
UnlockRead(l, lock, t) == [l EXCEPT ![lock].readers = @ \ {t}]

----------------------------------------------------------------------------
(* DiscoveryManager::add_server_request *)

Take(s, n) == IF Len(s) <= n THEN s ELSE SubSeq(s, 1, n)

DnsLookup(dns, host) == IF host \in DOMAIN dns THEN dns[host] ELSE None

\* the existing_services map built from the queue
ExistingServices(q) ==
    [a \in {j.addr : j \in BagToSet(q)} |->
        {j.service : j \in {k \in BagToSet(q) : k.addr = a}}]

\* mutant of FilterHost: the address is not compared with the reporting one
FilterHostAnySource(rawhost, ports, added_by, dns) ==
    LET hostname == ToLowercase(rawhost)
        resolved == ServerAddrResolve(hostname, DnsLookup(dns, hostname))
    IN  IF HostnameLen(hostname) > MAX_HOSTNAME_LEN THEN Err("skipping invalid hostname")
        ELSE IF ~IsOk(resolved) THEN Err("failed resolving")
        ELSE Ok(<<resolved[2], hostname, ports>>)

\* the filter_map closure: Ok(<<addr, hostname, ports>>), or Err(warning)
FilterHost(rawhost, ports, added_by, dns) ==
    LET hostname == ToLowercase(rawhost)
        resolved == ServerAddrResolve(hostname, DnsLookup(dns, hostname))
    IN  IF HostnameLen(hostname) > MAX_HOSTNAME_LEN THEN Err("skipping invalid hostname")
        ELSE IF ~IsOk(resolved) THEN Err("failed resolving")
        ELSE IF IsClearnet(resolved[2]) /\ resolved[2][2] # added_by
            THEN Err("server ip does not match source ip")
        ELSE Ok(<<resolved[2], hostname, ports>>)

\* the services of one host, in the order its HashSet is iterated
ServicesOf(ports, tcp_first) ==
    LET tcp_service == IF IsSome(ports.tcp_port) THEN <<Tcp(Unwrap(ports.tcp_port))>> ELSE <<>>
        ssl_service == IF IsSome(ports.ssl_port) THEN <<Ssl(Unwrap(ports.ssl_port))>> ELSE <<>>
    IN  IF tcp_first THEN tcp_service \o ssl_service ELSE ssl_service \o tcp_service

\* the filter of the flat_map closure
NotExisting(existing, addr, service) ==
    IF addr \in DOMAIN existing THEN service \notin existing[addr] ELSE TRUE

RECURSIVE NewJobs(_, _, _, _, _)
NewJobs(services, existing, addr, hostname, added_by) ==
    IF services = <<>> THEN <<>>
    ELSE (IF NotExisting(existing, addr, Head(services))
          THEN <<HealthCheckNew(addr, hostname, Head(services), Some(added_by))>>
          ELSE <<>>)
         \o NewJobs(Tail(services), existing, addr, hostname, added_by)

\* the flat_map closure: the jobs of one surviving host
FlatMapHost(host, existing, added_by, tcp_first) ==
    NewJobs(ServicesOf(host[3], tcp_first), existing, host[1], host[2], added_by)

\* filter_map and flat_map over the hosts taken, in iteration order
RECURSIVE CandidateJobs(_, _, _, _, _, _)
CandidateJobs(order, hosts, existing, added_by, dns, tcp_first) ==
    IF order = <<>> THEN <<>>
    ELSE LET kept == FilterHost(Head(order), hosts[Head(order)], added_by, dns)
         IN  (IF IsOk(kept) THEN FlatMapHost(kept[2], existing, added_by, tcp_first[Head(order)])
              ELSE <<>>)
             \o CandidateJobs(Tail(order), hosts, existing, added_by, dns, tcp_first)

\* the warn! lines of the filter_map closure
Warnings(order, hosts, added_by, dns) ==
    {<<order[i], FilterHost(order[i], hosts[order[i]], added_by, dns)[2]>> :
        i \in {k \in 1..Len(order) : ~IsOk(FilterHost(order[k], hosts[order[k]], added_by, dns))}}

\* the hosts of order that pass the filter_map closure
RECURSIVE Surviving(_, _, _, _)
Surviving(order, hosts, added_by, dns) ==
    IF order = <<>> THEN <<>>
    ELSE (IF IsOk(FilterHost(Head(order), hosts[Head(order)], added_by, dns))
          THEN <<Head(order)>> ELSE <<>>)
         \o Surviving(Tail(order), hosts, added_by, dns)

\* mutant of CollectJobs: take(MAX_SERVERS_PER_REQUEST) comes after filter_map
CollectJobsTakeAfterFilter(q, added_by, features, order, dns, tcp_first) ==
    Take(CandidateJobs(Take(Surviving(order, features.hosts, added_by, dns),
                            MAX_SERVERS_PER_REQUEST),
                       features.hosts, ExistingServices(q), added_by, dns, tcp_first),
         MAX_SERVICES_PER_REQUEST)

\* the jobs collected (lines 117-166); order is the iteration order of features.hosts
CollectJobs(q, added_by, features, order, dns, tcp_first) ==
    Take(CandidateJobs(Take(order, MAX_SERVERS_PER_REQUEST), features.hosts,
                       ExistingServices(q), added_by, dns, tcp_first),
         MAX_SERVICES_PER_REQUEST)

\* mutant of AddServerRequestResult: the jobs are put in the queue before the
\* second size check
AddServerRequestResultExtendsFirst(q, added_by, features, order, dns, tcp_first) ==
    LET jobs == CollectJobs(q, added_by, features, order, dns, tcp_first)
        warned == Warnings(Take(order, MAX_SERVERS_PER_REQUEST), features.hosts, added_by, dns)
        rejected(e, w, j) == [op |-> "add_server_request", added_by |-> Some(added_by),
                              result |-> Err(e), warned |-> w, jobs |-> j]
    IN  IF ~IsOk(verify_compatibility(features))
            THEN rejected(verify_compatibility(features)[2], {}, <<>>)
        ELSE IF ~(HeapLen(q) < MAX_QUEUE_SIZE) THEN rejected("queue size exceeded", {}, <<>>)
        ELSE IF jobs = <<>> THEN rejected("no new valid entries", warned, <<>>)
        ELSE IF ~(HeapLen(q) + Len(jobs) <= MAX_QUEUE_SIZE)
            THEN rejected("queue size exceeded", warned, jobs)
        ELSE [op |-> "add_server_request", added_by |-> Some(added_by),
              result |-> Ok("unit"), warned |-> warned, jobs |-> jobs]

\* the value returned and the jobs put in the queue
AddServerRequestResult(q, added_by, features, order, dns, tcp_first) ==
    LET jobs == CollectJobs(q, added_by, features, order, dns, tcp_first)
        warned == Warnings(Take(order, MAX_SERVERS_PER_REQUEST), features.hosts, added_by, dns)
        rejected(e, w) == [op |-> "add_server_request", added_by |-> Some(added_by),
                           result |-> Err(e), warned |-> w, jobs |-> <<>>]
    IN  IF ~IsOk(verify_compatibility(features))
            THEN rejected(verify_compatibility(features)[2], {})
        ELSE IF ~(HeapLen(q) < MAX_QUEUE_SIZE) THEN rejected("queue size exceeded", {})
        ELSE IF jobs = <<>> THEN rejected("no new valid entries", warned)
        ELSE IF ~(HeapLen(q) + Len(jobs) <= MAX_QUEUE_SIZE)
            THEN rejected("queue size exceeded", warned)
        ELSE [op |-> "add_server_request", added_by |-> Some(added_by),
              result |-> Ok("unit"), warned |-> warned, jobs |-> jobs]

add_server_request(added_by, features, order, dns, tcp_first) ==
    \E r \in {AddServerRequestResult(queue, added_by, features, order, dns, tcp_first)} :
        /\ queue' = HeapExtend(queue, r.jobs)
        /\ ret' = r
        /\ locks' = Unlock(locks, "queue")
        /\ UNCHANGED <<healthy, tor_proxy, now, pc, health_check, was_healthy, checked, gave_up>>

----------------------------------------------------------------------------
(* DiscoveryManager::add_default_server *)

RECURSIVE DefaultJobs(_, _, _)
DefaultJobs(addr, hostname, services) ==
    IF services = <<>> THEN <<>>
    ELSE <<HealthCheckNew(addr, hostname, Head(services), None)>>
         \o DefaultJobs(addr, hostname, Tail(services))

AddDefaultServerResult(hostname, services, dns) ==
    LET resolved == ServerAddrResolve(hostname, DnsLookup(dns, hostname))
    IN  IF ~IsOk(resolved)
        THEN [op |-> "add_default_server", added_by |-> None, result |-> resolved,
              warned |-> {}, jobs |-> <<>>]
        ELSE [op |-> "add_default_server", added_by |-> None, result |-> Ok("unit"),
              warned |-> {}, jobs |-> DefaultJobs(resolved[2], hostname, services)]

add_default_server(hostname, services, dns) ==
    \E r \in {AddDefaultServerResult(hostname, services, dns)} :
        /\ queue' = HeapExtend(queue, r.jobs)
        /\ ret' = r
        /\ locks' = Unlock(locks, "queue")
        /\ UNCHANGED <<healthy, tor_proxy, now, pc, health_check, was_healthy, checked, gave_up>>

----------------------------------------------------------------------------
(* DiscoveryManager::run_health_check, one action per lock section or call. *)
(* pc: "idle" between two calls, "peeked" after the peek that found a job   *)
(* due, "popped" after the pop, "checked" after check_server, "updated"     *)
(* after the registry was brought up to date, "panicked" after a failed     *)
(* assert! or the unreachable!                                              *)

\* mutant of TooEarly: the age is compared with JOB_INTERVAL
TooEarlyJobInterval(next) ==
    IF IsSome(next.last_check) THEN Elapsed(Unwrap(next.last_check)) < JOB_INTERVAL
    ELSE FALSE

\* the closure given to peek().map_or: is it too early for this job
TooEarly(next) ==
    IF IsSome(next.last_check) THEN Elapsed(Unwrap(next.last_check)) < HEALTH_CHECK_FREQ
    ELSE FALSE

\* lines 208-213: return when the queue is empty or its head is not due
RunHealthCheckPeek ==
    /\ pc = "idle"
    /\ IF HeapLen(queue) = 0 THEN UNCHANGED pc
       ELSE \E next \in HeapGreatest(queue) :
                IF TooEarly(next) THEN UNCHANGED pc
                ELSE pc' = "peeked"
    /\ locks' = UnlockRead(locks, "queue", JobsThread)
    /\ UNCHANGED <<queue, healthy, tor_proxy, now, health_check, was_healthy, checked, gave_up, ret>>

\* lines 215-218: pop the head, note whether it was healthy
RunHealthCheckPop ==
    /\ pc = "peeked"
    /\ \E job \in HeapGreatest(queue) :
        /\ queue' = HeapRemove(queue, job)
        /\ health_check' = Some(job)
        /\ was_healthy' = is_healthy(job)
    /\ pc' = "popped"
    /\ gave_up' = None
    /\ locks' = Unlock(locks, "queue")
    /\ UNCHANGED <<healthy, tor_proxy, now, checked, ret>>

\* lines 220-224: the probe, no lock held
RunHealthCheckProbe(conn) ==
    /\ pc = "popped"
    /\ checked' = check_server(Unwrap(health_check).addr, Unwrap(health_check).hostname,
                               Unwrap(health_check).service, tor_proxy, conn)
    /\ pc' = "checked"
    /\ UNCHANGED <<queue, healthy, tor_proxy, now, health_check, was_healthy, gave_up, ret,
                   locks>>

\* mutant of RegistryUpdate: a failed probe leaves the registry alone
RegistryUpdateKeepsFailed(h, job, healthy_before, result) ==
    IF IsOk(result) /\ ~healthy_before THEN save_healthy_service(h, job, result[2])
    ELSE [panicked |-> FALSE, healthy |-> h]

\* the registry after lines 231-233 (Ok) or lines 250-253 (Err)
RegistryUpdate(h, job, healthy_before, result) ==
    IF IsOk(result)
    THEN IF ~healthy_before THEN save_healthy_service(h, job, result[2])
         ELSE [panicked |-> FALSE, healthy |-> h]
    ELSE IF healthy_before THEN remove_unhealthy_service(h, job)
         ELSE [panicked |-> FALSE, healthy |-> h]

RunHealthCheckRegistry ==
    /\ pc = "checked"
    /\ LET r == RegistryUpdate(healthy, Unwrap(health_check), was_healthy, checked)
       IN  /\ healthy' = r.healthy
           /\ pc' = IF r.panicked THEN "panicked" ELSE "updated"
    /\ locks' = Unlock(locks, "healthy")
    /\ UNCHANGED <<queue, tor_proxy, now, health_check, was_healthy, checked, gave_up, ret>>

\* mutant of UpdatedJob: a successful probe leaves the count of failures
UpdatedJobKeepsFailures(job, result, t) ==
    IF IsOk(result)
    THEN [job EXCEPT !.last_check = Some(t), !.last_healthy = Some(t)]
    ELSE [job EXCEPT !.last_check = Some(t),
                     !.consecutive_failures = @ + 1]

\* the job after lines 236-238 (Ok) or lines 255-256 (Err)
UpdatedJob(job, result, t) ==
    IF IsOk(result)
    THEN [job EXCEPT !.last_check = Some(t), !.last_healthy = Some(t),
                     !.consecutive_failures = 0]
    ELSE [job EXCEPT !.last_check = Some(t),
                     !.consecutive_failures = @ + 1]

\* is the job pushed back: always after Ok (line 240), after Err when
\* should_retry (lines 258-262)
PushedBack(job, result) == IF IsOk(result) THEN TRUE ELSE should_retry(job)

\* lines 236-242 and 255-264: update the job, push it back or give up on it
RunHealthCheckRequeue ==
    /\ pc = "updated"
    /\ LET job == UpdatedJob(Unwrap(health_check), checked, now)
       IN  IF PushedBack(job, checked)
           THEN /\ queue' = HeapPush(queue, job)
                /\ UNCHANGED gave_up
           ELSE /\ gave_up' = Some(job)
                /\ UNCHANGED queue
    /\ pc' = "idle"
    /\ health_check' = None
    /\ was_healthy' = FALSE
    /\ checked' = None
    /\ locks' = Unlock(locks, "queue")
    /\ UNCHANGED <<healthy, tor_proxy, now, ret>>

\* the clock advances by step, up to limit
Tick(step, limit) ==
    /\ now + step <= limit
    /\ now' = now + step
    /\ UNCHANGED <<queue, healthy, tor_proxy, pc, health_check, was_healthy, checked, gave_up, ret,
                   locks>>

----------------------------------------------------------------------------
(* The manager after DiscoveryManager::default(), with the test's proxy *)

NoCall == [op |-> "none", added_by |-> None, result |-> None, warned |-> {}, jobs |-> <<>>]

Init ==
    /\ queue = EmptyBag
    /\ healthy = [a \in {} |-> None]
    /\ tor_proxy = Some("127.0.0.1:9150")
    /\ now = 0
    /\ pc = "idle"
    /\ health_check = None
    /\ was_healthy = FALSE
    /\ checked = None
    /\ gave_up = None
    /\ ret = NoCall
    /\ locks = NoLocks

(* What the peers answer to a probe *)

GoodFeatures == ServerFeaturesOf("testnet", <<1, 0>>, <<1, 4>>, "sha256", NoHosts)
NewerFeatures == ServerFeaturesOf("testnet", <<1, 2>>, <<1, 5>>, "sha256", NoHosts)
MainnetFeatures == ServerFeaturesOf("mainnet", <<1, 0>>, <<1, 4>>, "sha256", NoHosts)
OldFeatures == ServerFeaturesOf("testnet", <<1, 0>>, <<1, 2>>, "sha256", NoHosts)
Sha512Features == ServerFeaturesOf("testnet", <<1, 0>>, <<1, 4>>, "sha512", NoHosts)

Conns == {Err("connection refused"), Ok(GoodFeatures)}

\* the iteration orders of a HashMap with these keys
Orders(S) == {o \in [1..Cardinality(S) -> S] : \A i, j \in 1..Cardinality(S) : o[i] = o[j] => i = j}

Ports(tcp, ssl) == [tcp_port |-> tcp, ssl_port |-> ssl]

(* Spec: admissions of default and announced servers on one address, with   *)
(* the health check cycle and the clock                                     *)

SpecDns == [h \in {"a.example"} |-> Some("1.1.1.1")]

SpecRequest ==
    ServerFeaturesOf("testnet", <<1, 0>>, <<1, 4>>, "sha256",
                     [h \in {"a.example"} |-> Ports(Some(50001), None)])

\* the jobs alive: those in the queue and the one being probed
JobCount == HeapLen(queue) + Len(health_check)

AdmitDefault ==
    \E services \in {<<Tcp(50001)>>, <<Tcp(50001), Ssl(50002)>>} :
        /\ JobCount + Len(services) <= MaxJobs
        /\ add_default_server("a.example", services, SpecDns)

AdmitAnnounced ==
    /\ JobCount < MaxJobs
    /\ add_server_request("1.1.1.1", SpecRequest, <<"a.example">>, SpecDns,
                          [h \in {"a.example"} |-> TRUE])

Probe == \E conn \in Conns : RunHealthCheckProbe(conn)

Clock == Tick(TimeStep, MaxTime)

Next ==
    \/ AdmitDefault
    \/ AdmitAnnounced
    \/ RunHealthCheckPeek
    \/ RunHealthCheckPop
    \/ Probe
    \/ RunHealthCheckRegistry
    \/ RunHealthCheckRequeue
    \/ Clock

Spec == Init /\ [][Next]_vars

----------------------------------------------------------------------------
(* SpecRetry: a server seeded at construction and a server announced once   *)
(* on the same address, probed for a day.  The clock advances by            *)
(* HEALTH_CHECK_FREQ, and only when the thread has probed every job due.    *)

RetryRequest ==
    ServerFeaturesOf("testnet", <<1, 0>>, <<1, 4>>, "sha256",
                     [h \in {"a.example"} |-> Ports(None, Some(50002))])

AdmitDefaultRetry ==
    /\ ret.op = "none"
    /\ add_default_server("a.example", <<Tcp(50001)>>, SpecDns)

AdmitAnnouncedRetry ==
    /\ ret.op = "add_default_server"
    /\ add_server_request("1.1.1.1", RetryRequest, <<"a.example">>, SpecDns,
                          [h \in {"a.example"} |-> TRUE])

ClockRetry ==
    /\ pc = "idle"
    /\ \A next \in HeapGreatest(queue) : TooEarly(next)
    /\ Tick(HEALTH_CHECK_FREQ, MaxTimeRetry)

NextRetry ==
    \/ AdmitDefaultRetry
    \/ AdmitAnnouncedRetry
    \/ RunHealthCheckPeek
    \/ RunHealthCheckPop
    \/ Probe
    \/ RunHealthCheckRegistry
    \/ RunHealthCheckRequeue
    \/ ClockRetry

SpecRetry == Init /\ [][NextRetry]_vars

----------------------------------------------------------------------------
(* SpecAdmit: announcements from two addresses, with names that resolve to  *)
(* either address or not at all, an onion name, a name of 101 characters,   *)
(* names in upper case and more than MAX_SERVERS_PER_REQUEST names; the     *)
(* health check cycle runs at time 0                                        *)

\* the most jobs SpecAdmit lets an announcement bring the manager to
MaxJobsAdmit == 2

AdmitHosts ==
    {[h \in {"a.example", "1.1.1.1"} |-> Ports(Some(50001), None)],
     [h \in {"A.Example", "b.example", "X.Onion", LongHostname} |->
        IF h = "A.Example" THEN Ports(Some(50001), None)
        ELSE IF h = "b.example" THEN Ports(Some(50001), Some(50002))
        ELSE Ports(None, Some(50002))]}

AdmitRequests ==
    {ServerFeaturesOf("testnet", <<1, 0>>, <<1, 4>>, "sha256", hosts) : hosts \in AdmitHosts}
        \cup {ServerFeaturesOf("testnet", <<1, 0>>, <<1, 2>>, "sha256",
                               [h \in {"1.1.1.1"} |-> Ports(Some(50001), None)])}

\* the answers of the resolver: each name on its own address, or a.example
\* on the other address and b.example unknown
AdmitDns ==
    {[h \in {"a.example", "b.example"} |-> IF h = "a.example" THEN Some("1.1.1.1") ELSE Some("2.2.2.2")],
     [h \in {"a.example", "b.example"} |-> IF h = "a.example" THEN Some("2.2.2.2") ELSE None]}

\* the iteration orders tried for a HashMap with keys S: one order when all
\* its keys are taken, the rotations of one order when some are left out
OrdersTried(S) ==
    LET base == CHOOSE o \in Orders(S) : TRUE
        n == Cardinality(S)
    IN  IF n <= MAX_SERVERS_PER_REQUEST THEN {base}
        ELSE {[i \in 1..n |-> base[((i + k) % n) + 1]] : k \in 0..(n - 1)}

\* the announcements tried: <<added_by, features, order, dns>>
AdmitInputs ==
    UNION {{<<added_by, features, order, dns>> :
                added_by \in IpAddrs, order \in OrdersTried(DOMAIN features.hosts), dns \in AdmitDns} :
           features \in AdmitRequests}

AdmitAnnouncedAny ==
    /\ JobCount < MaxJobsAdmit
    /\ \E in \in AdmitInputs :
        /\ add_server_request(in[1], in[2], in[3], in[4], [h \in DOMAIN in[2].hosts |-> TRUE])
        /\ HeapLen(queue') + Len(health_check) <= MaxJobsAdmit

NextAdmit ==
    \/ AdmitAnnouncedAny
    \/ RunHealthCheckPeek
    \/ RunHealthCheckPop
    \/ Probe
    \/ RunHealthCheckRegistry
    \/ RunHealthCheckRequeue

SpecAdmit == Init /\ [][NextAdmit]_vars

----------------------------------------------------------------------------
(* SpecQueue: no default servers; one reporter announces services on ports  *)
(* that no job has, three hostnames with two services each, and when those  *)
(* do not fit one hostname with one service, and announcements that are     *)
(* rejected; the worker runs one health check cycle, on the full queue, at  *)
(* time 0                                                                   *)

QueueDns == [h \in {"a.example", "b.example"} |-> Some("1.1.1.1")]

\* the least port that no job alive has
FreshPort ==
    LET used == {j.service[2] : j \in BagToSet(queue)}
                    \cup {health_check[i].service[2] : i \in 1..Len(health_check)}
    IN  CHOOSE p \in 1..(Cardinality(used) + 1) :
            p \notin used /\ \A q \in 1..(p - 1) : q \in used

\* three hostnames of the reporter, with the six ports from p on
SixServices(p) ==
    ServerFeaturesOf("testnet", <<1, 0>>, <<1, 4>>, "sha256",
        [h \in {"1.1.1.1", "a.example", "b.example"} |->
            IF h = "1.1.1.1" THEN Ports(Some(p), Some(p + 1))
            ELSE IF h = "a.example" THEN Ports(Some(p + 2), Some(p + 3))
            ELSE Ports(Some(p + 4), Some(p + 5))])

OneService(p) ==
    ServerFeaturesOf("testnet", <<1, 0>>, <<1, 4>>, "sha256",
                     [h \in {"1.1.1.1"} |-> Ports(Some(p), None)])

AnnounceSix ==
    add_server_request("1.1.1.1", SixServices(FreshPort), <<"1.1.1.1", "a.example", "b.example">>,
                       QueueDns, [h \in {"1.1.1.1", "a.example", "b.example"} |-> TRUE])

AnnounceOne ==
    /\ HeapLen(queue) + MAX_SERVICES_PER_REQUEST > MAX_QUEUE_SIZE
    /\ add_server_request("1.1.1.1", OneService(FreshPort), <<"1.1.1.1">>, QueueDns,
                          [h \in {"1.1.1.1"} |-> TRUE])

\* announcements that are rejected whatever the queue holds: features of an
\* older protocol, and a hostname that is not on the reporting address
AnnounceRejected ==
    \/ add_server_request("1.1.1.1",
                          ServerFeaturesOf("testnet", <<1, 0>>, <<1, 2>>, "sha256",
                                           [h \in {"1.1.1.1"} |-> Ports(Some(FreshPort), None)]),
                          <<"1.1.1.1">>, QueueDns, [h \in {"1.1.1.1"} |-> TRUE])
    \/ add_server_request("2.2.2.2", OneService(FreshPort), <<"1.1.1.1">>, QueueDns,
                          [h \in {"1.1.1.1"} |-> TRUE])

\* no job has been probed
NeverProbed ==
    /\ gave_up = None
    /\ {j \in BagToSet(queue) : j.last_check # None} = {}

PeekFullQueue ==
    /\ HeapLen(queue) >= MAX_QUEUE_SIZE
    /\ NeverProbed
    /\ RunHealthCheckPeek

NextQueue ==
    \/ AnnounceSix
    \/ AnnounceOne
    \/ AnnounceRejected
    \/ PeekFullQueue
    \/ RunHealthCheckPop
    \/ Probe
    \/ RunHealthCheckRegistry
    \/ RunHealthCheckRequeue

SpecQueue == Init /\ [][NextQueue]_vars

----------------------------------------------------------------------------
(* SpecLive: one reporter announces two services of a.example again and     *)
(* again; the jobs thread is never stopped for good between two steps of a  *)
(* cycle or between two cycles (its loop sleeps JOB_INTERVAL and goes on),  *)
(* and the clock advances up to MaxTimeLive                                 *)

\* the clock of SpecLive stops at MaxTimeLive
MaxTimeLive == 7200
\* the most jobs SpecLive lets an announcement bring the manager to
MaxJobsLive == 2

LiveServices == {Tcp(50001), Ssl(50002)}

AdmitLive ==
    /\ JobCount < MaxJobsLive
    /\ \E features \in {SpecRequest, RetryRequest} :
        add_server_request("1.1.1.1", features, <<"a.example">>, SpecDns,
                           [h \in {"a.example"} |-> TRUE])

ClockLive == Tick(TimeStep, MaxTimeLive)

NextLive ==
    \/ AdmitLive
    \/ RunHealthCheckPeek
    \/ RunHealthCheckPop
    \/ Probe
    \/ RunHealthCheckRegistry
    \/ RunHealthCheckRequeue
    \/ ClockLive

SpecLive ==
    /\ Init
    /\ [][NextLive]_vars
    /\ WF_vars(RunHealthCheckPeek)
    /\ WF_vars(RunHealthCheckPop)
    /\ WF_vars(Probe)
    /\ WF_vars(RunHealthCheckRegistry)
    /\ WF_vars(RunHealthCheckRequeue)
    /\ WF_vars(ClockLive)

----------------------------------------------------------------------------
(* SpecProbe: a manager built with or without a proxy; a.example is seeded  *)
(* with two services and x.onion is announced; the peers refuse the         *)
(* connection or answer with features that are compatible or not; the       *)
(* clock advances up to MaxTimeProbe                                        *)

\* the clock of SpecProbe stops at MaxTimeProbe
MaxTimeProbe == 7200
\* the most jobs SpecProbe lets the admissions put in the queue
MaxJobsProbe == 3

\* DiscoveryManager::new with tor_proxy None or Some
InitProbe ==
    /\ queue = EmptyBag
    /\ healthy = [a \in {} |-> None]
    /\ tor_proxy \in {None, Some("127.0.0.1:9150")}
    /\ now = 0
    /\ pc = "idle"
    /\ health_check = None
    /\ was_healthy = FALSE
    /\ checked = None
    /\ gave_up = None
    /\ ret = NoCall
    /\ locks = NoLocks

ProbeConns ==
    {Err("connection refused"), Ok(GoodFeatures), Ok(NewerFeatures), Ok(MainnetFeatures),
     Ok(OldFeatures), Ok(Sha512Features)}

OnionRequest ==
    ServerFeaturesOf("testnet", <<1, 0>>, <<1, 4>>, "sha256",
                     [h \in {"x.onion"} |-> Ports(Some(50001), None)])

AdmitDefaultProbe ==
    /\ JobCount + 2 <= MaxJobsProbe
    /\ add_default_server("a.example", <<Tcp(50001), Ssl(50002)>>, SpecDns)

AdmitAnnouncedProbe ==
    /\ JobCount < MaxJobsProbe
    /\ add_server_request("1.1.1.1", OnionRequest, <<"x.onion">>, SpecDns,
                          [h \in {"x.onion"} |-> TRUE])

ProbeAny == \E conn \in ProbeConns : RunHealthCheckProbe(conn)

ClockProbe == Tick(TimeStep, MaxTimeProbe)

NextProbe ==
    \/ AdmitDefaultProbe
    \/ AdmitAnnouncedProbe
    \/ RunHealthCheckPeek
    \/ RunHealthCheckPop
    \/ ProbeAny
    \/ RunHealthCheckRegistry
    \/ RunHealthCheckRequeue
    \/ ClockProbe

SpecProbe == InitProbe /\ [][NextProbe]_vars

----------------------------------------------------------------------------
(* SpecCaps: announcements of four hostnames with two services each, three  *)
(* of them on the reporting address and one of 101 characters, in the       *)
(* iteration orders of the HashMap that leave out each of the four, sent    *)
(* from that address; the health check cycle runs at time 0                 *)
(* and finds every server down                                              *)

\* the most jobs SpecCaps lets an announcement bring the manager to
MaxJobsCaps == 6

CapsHosts ==
    [h \in {"1.1.1.1", "A.Example", "b.example", LongHostname} |->
        IF h = "1.1.1.1" THEN Ports(Some(50001), Some(50002))
        ELSE IF h = "A.Example" THEN Ports(Some(50003), Some(50004))
        ELSE IF h = "b.example" THEN Ports(Some(50005), Some(50006))
        ELSE Ports(Some(50007), Some(50008))]

CapsRequest == ServerFeaturesOf("testnet", <<1, 0>>, <<1, 4>>, "sha256", CapsHosts)

AdmitCaps ==
    /\ JobCount < MaxJobsCaps
    /\ \E order \in OrdersTried(DOMAIN CapsHosts) :
        /\ add_server_request("1.1.1.1", CapsRequest, order, QueueDns,
                              [h \in DOMAIN CapsHosts |-> TRUE])
        /\ HeapLen(queue') + Len(health_check) <= MaxJobsCaps

\* no server answers
ProbeCaps == RunHealthCheckProbe(Err("connection refused"))

NextCaps ==
    \/ AdmitCaps
    \/ RunHealthCheckPeek
    \/ RunHealthCheckPop
    \/ ProbeCaps
    \/ RunHealthCheckRegistry
    \/ RunHealthCheckRequeue

SpecCaps == Init /\ [][NextCaps]_vars

----------------------------------------------------------------------------
(* SpecOnion: an onion server seeded at construction with a TCP and a TLS   *)
(* service and announced once with two more, with and without a proxy,      *)
(* probed for a day.  The clock advances as in SpecRetry.                   *)

\* the clock of SpecOnion stops here
MaxTimeOnion == 86400

OnionServicesRequest ==
    ServerFeaturesOf("testnet", <<1, 0>>, <<1, 4>>, "sha256",
                     [h \in {"x.onion"} |-> Ports(Some(50003), Some(50004))])

AdmitDefaultOnion ==
    /\ ret.op = "none"
    /\ add_default_server("x.onion", <<Tcp(50001), Ssl(50002)>>, SpecDns)

AdmitAnnouncedOnion ==
    /\ ret.op = "add_default_server"
    /\ add_server_request("1.1.1.1", OnionServicesRequest, <<"x.onion">>, SpecDns,
                          [h \in {"x.onion"} |-> TRUE])

ClockOnion ==
    /\ pc = "idle"
    /\ \A next \in HeapGreatest(queue) : TooEarly(next)
    /\ Tick(HEALTH_CHECK_FREQ, MaxTimeOnion)

NextOnion ==
    \/ AdmitDefaultOnion
    \/ AdmitAnnouncedOnion
    \/ RunHealthCheckPeek
    \/ RunHealthCheckPop
    \/ Probe
    \/ RunHealthCheckRegistry
    \/ RunHealthCheckRequeue
    \/ ClockOnion

SpecOnion == InitProbe /\ [][NextOnion]_vars

----------------------------------------------------------------------------
(* SpecLock: the thread of the health check cycle and two threads that call *)
(* add_server_request, add_default_server and get_servers, one step per     *)
(* lock acquisition, per blocking name resolution and per locked section.   *)
(* A thread takes a lock in a step of its own, when the RwLock lets it; the *)
(* step of the section that follows drops the guard.                        *)
(*                                                                          *)
(* locks.at of a caller: "none" outside a call; in add_server_request       *)
(* "announce:lock" before line 104, "announce:locked" after it,             *)
(* "announce:resolve" inside the lookup of line 128; in add_default_server  *)
(* "default:resolve" inside the lookup of line 182, "default:lock" before   *)
(* line 183, "default:locked" after it; in get_servers "list:lock" before   *)
(* line 196 and "list:locked" after it.                                     *)

\* the clock of SpecLock stops here
MaxTimeLock == 3600

\* the most jobs SpecLock lets an admission bring the manager to
MaxJobsLock == 2

At(t) == locks.at[t]

Goto(t, position) == [locks EXCEPT !.at[t] = position]

data == <<queue, healthy, tor_proxy, now, pc, health_check, was_healthy, checked, gave_up, ret>>

LockRequest ==
    ServerFeaturesOf("testnet", <<1, 0>>, <<1, 4>>, "sha256",
                     [h \in {"a.example"} |-> Ports(None, Some(50002))])

\* the callers inside an admission call
Admitting == {t \in Callers : At(t) \notin {"none", "list:lock", "list:locked"}}

\* line 102 passed
CallAddServerRequest(t) ==
    /\ At(t) = "none"
    /\ JobCount + Cardinality(Admitting) < MaxJobsLock
    /\ locks' = Goto(t, "announce:lock")
    /\ UNCHANGED data

\* line 104
LockAddServerRequest(t) ==
    /\ At(t) = "announce:lock"
    /\ CanWrite(locks, "queue")
    /\ locks' = LockWrite(Goto(t, "announce:locked"), "queue", t)
    /\ UNCHANGED data

\* line 128: the closure of filter_map calls ServerAddr::resolve, which
\* looks the name up
ResolveAddServerRequest(t) ==
    /\ At(t) = "announce:locked"
    /\ locks' = Goto(t, "announce:resolve")
    /\ UNCHANGED data

\* the lookup returns, the call runs to its end
ReturnAddServerRequest(t) ==
    /\ At(t) = "announce:resolve"
    /\ locks.queue.writer = Some(t)
    /\ add_server_request("1.1.1.1", LockRequest, <<"a.example">>, SpecDns,
                          [h \in {"a.example"} |-> TRUE])

\* line 182
CallAddDefaultServer(t) ==
    /\ At(t) = "none"
    /\ JobCount + Cardinality(Admitting) < MaxJobsLock
    /\ locks' = Goto(t, "default:resolve")
    /\ UNCHANGED data

ResolvedAddDefaultServer(t) ==
    /\ At(t) = "default:resolve"
    /\ locks' = Goto(t, "default:lock")
    /\ UNCHANGED data

\* line 183
LockAddDefaultServer(t) ==
    /\ At(t) = "default:lock"
    /\ CanWrite(locks, "queue")
    /\ locks' = LockWrite(Goto(t, "default:locked"), "queue", t)
    /\ UNCHANGED data

\* lines 184-189, with the address line 182 found
ReturnAddDefaultServer(t) ==
    /\ At(t) = "default:locked"
    /\ locks.queue.writer = Some(t)
    /\ add_default_server("a.example", <<Tcp(50001)>>, SpecDns)

CallGetServers(t) ==
    /\ At(t) = "none"
    /\ locks' = Goto(t, "list:lock")
    /\ UNCHANGED data

\* line 196
LockGetServers(t) ==
    /\ At(t) = "list:lock"
    /\ CanRead(locks, "healthy")
    /\ locks' = LockRead(Goto(t, "list:locked"), "healthy", t)
    /\ UNCHANGED data

\* lines 197-202: the entries are built, the guard is dropped
ReturnGetServers(t) ==
    /\ At(t) = "list:locked"
    /\ t \in locks.healthy.readers
    /\ locks' = UnlockRead(Goto(t, "none"), "healthy", t)
    /\ UNCHANGED data

\* line 208: self.queue.read()
LockPeek ==
    /\ pc = "idle"
    /\ JobsThread \notin locks.queue.readers
    /\ CanRead(locks, "queue")
    /\ locks' = LockRead(locks, "queue", JobsThread)
    /\ UNCHANGED data

PeekLocked ==
    /\ pc = "idle"
    /\ JobsThread \in locks.queue.readers
    /\ RunHealthCheckPeek

\* line 215: self.queue.write()
LockPop ==
    /\ pc = "peeked"
    /\ locks.queue.writer # Some(JobsThread)
    /\ CanWrite(locks, "queue")
    /\ locks' = LockWrite(locks, "queue", JobsThread)
    /\ UNCHANGED data

PopLocked ==
    /\ pc = "peeked"
    /\ locks.queue.writer = Some(JobsThread)
    /\ RunHealthCheckPop

\* does the cycle call save_healthy_service or remove_unhealthy_service
CallsRegistry == IsOk(checked) # was_healthy

\* lines 272 and 283: self.healthy.write()
LockRegistry ==
    /\ pc = "checked"
    /\ CallsRegistry
    /\ locks.healthy.writer # Some(JobsThread)
    /\ CanWrite(locks, "healthy")
    /\ locks' = LockWrite(locks, "healthy", JobsThread)
    /\ UNCHANGED data

RegistryLocked ==
    /\ pc = "checked"
    /\ CallsRegistry => locks.healthy.writer = Some(JobsThread)
    /\ RunHealthCheckRegistry

\* does the cycle push its job back
CallsPush == PushedBack(UpdatedJob(Unwrap(health_check), checked, now), checked)

\* lines 240 and 259: self.queue.write()
LockRequeue ==
    /\ pc = "updated"
    /\ CallsPush
    /\ locks.queue.writer # Some(JobsThread)
    /\ CanWrite(locks, "queue")
    /\ locks' = LockWrite(locks, "queue", JobsThread)
    /\ UNCHANGED data

RequeueLocked ==
    /\ pc = "updated"
    /\ CallsPush => locks.queue.writer = Some(JobsThread)
    /\ RunHealthCheckRequeue

ClockLock ==
    /\ pc = "idle"
    /\ Holds(locks, JobsThread) = {}
    /\ \A next \in HeapGreatest(queue) : TooEarly(next)
    /\ Tick(HEALTH_CHECK_FREQ, MaxTimeLock)

NextLock ==
    \/ \E t \in Callers : CallAddServerRequest(t)
    \/ \E t \in Callers : LockAddServerRequest(t)
    \/ \E t \in Callers : ResolveAddServerRequest(t)
    \/ \E t \in Callers : ReturnAddServerRequest(t)
    \/ \E t \in Callers : CallAddDefaultServer(t)
    \/ \E t \in Callers : ResolvedAddDefaultServer(t)
    \/ \E t \in Callers : LockAddDefaultServer(t)
    \/ \E t \in Callers : ReturnAddDefaultServer(t)
    \/ \E t \in Callers : CallGetServers(t)
    \/ \E t \in Callers : LockGetServers(t)
    \/ \E t \in Callers : ReturnGetServers(t)
    \/ LockPeek
    \/ PeekLocked
    \/ LockPop
    \/ PopLocked
    \/ Probe
    \/ LockRegistry
    \/ RegistryLocked
    \/ LockRequeue
    \/ RequeueLocked
    \/ ClockLock

SpecLock == Init /\ [][NextLock]_vars

----------------------------------------------------------------------------
(* Properties of Spec *)

\* the jobs in the queue, and those with the one being probed
Queued == BagToSet(queue)
Jobs == Queued \cup {health_check[i] : i \in 1..Len(health_check)}

\* the jobs on address a whose last check succeeded
HealthyJobsOn(a) ==
    {j \in Queued : j.addr = a /\ j.last_check # None /\ j.last_check = j.last_healthy}

\* C1: between two health check cycles the registry has an entry for an
\* address exactly when a queued job on that address has last_check present
\* and equal to last_healthy, and the entry lists exactly the services of
\* those jobs.
C1_RegistryMatchesHealthyJobs ==
    pc = "idle" =>
        \A a \in DOMAIN healthy \cup {j.addr : j \in Queued} :
            /\ a \in DOMAIN healthy <=> HealthyJobsOn(a) # {}
            /\ a \in DOMAIN healthy =>
                   healthy[a].services = {j.service : j \in HealthyJobsOn(a)}

\* a service was registered and removed again while another one stays
C1_Witness ==
    /\ pc = "idle"
    /\ \E a \in DOMAIN healthy : \E j \in Queued :
        /\ j.addr = a
        /\ j.last_healthy # None
        /\ j.last_check # j.last_healthy
        /\ j.service \notin healthy[a].services

\* C2: the assert! of save_healthy_service, the assert! and the
\* unreachable! of remove_unhealthy_service never fire.
C2_NeverPanics == pc # "panicked"

\* C8: the job popped by a health check cycle was never checked, or was
\* last checked at least HEALTH_CHECK_FREQ ago; this holds from the pop to
\* the end of the cycle, whatever was pushed between the peek and the pop.
C8_PoppedJobIsDue ==
    pc \in {"popped", "checked", "updated"} =>
        \/ Unwrap(health_check).last_check = None
        \/ now - Unwrap(Unwrap(health_check).last_check) >= HEALTH_CHECK_FREQ

\* a job checked before is popped again, HEALTH_CHECK_FREQ or more later
C8_Witness ==
    /\ pc = "popped"
    /\ Unwrap(health_check).last_check # None
    /\ now - Unwrap(Unwrap(health_check).last_check) >= HEALTH_CHECK_FREQ

\* a is not after b: absent comes before every timestamp
NotAfter(a, b) == a = None \/ (b # None /\ Unwrap(a) <= Unwrap(b))

\* C9: the job popped has a last_check that is least among the jobs in the
\* queue at the pop, absent coming before every timestamp.
C9_PopsLeastLastCheck ==
    [][(pc = "peeked" /\ pc' = "popped") =>
        \A j \in BagToSet(queue) :
            NotAfter(Unwrap(health_check').last_check, j.last_check)]_vars

\* a job with a timestamp is popped while a job checked later waits
C9_Witness ==
    /\ pc = "popped"
    /\ Unwrap(health_check).last_check # None
    /\ \E j \in Queued :
        /\ j.last_check # None
        /\ Unwrap(j.last_check) > Unwrap(Unwrap(health_check).last_check)

----------------------------------------------------------------------------
(* Properties of SpecRetry *)

\* the job in flight with the bookkeeping of one more failed probe
FailedOnceMore(job) ==
    [job EXCEPT !.last_check = Some(now), !.consecutive_failures = @ + 1]

\* the step that ends a cycle whose probe failed
FailedCycleEnds == pc = "updated" /\ pc' = "idle" /\ ~IsOk(checked)

\* C3: a default job that was never healthy is pushed back after each of
\* its 1st to 23rd consecutive failed probes and is given up on after the
\* 24th; no such job with 24 failures is ever in the queue or popped.
C3_DefaultJobRetries ==
    [][/\ (/\ FailedCycleEnds
           /\ Unwrap(health_check).is_default
           /\ Unwrap(health_check).last_healthy = None) =>
              LET n == Unwrap(health_check).consecutive_failures + 1
              IN  /\ n \in 1..24
                  /\ n <= 23 => queue' = queue (+) SetToBag({FailedOnceMore(Unwrap(health_check))})
                  /\ n = 24 => queue' = queue /\ gave_up' = Some(FailedOnceMore(Unwrap(health_check)))
       /\ \A j \in BagToSet(queue') \cup {health_check'[i] : i \in 1..Len(health_check')} :
              (j.is_default /\ j.last_healthy = None) => j.consecutive_failures <= 23
      ]_vars

\* the default job was given up on after 24 failed probes in a row
C3_Witness ==
    /\ gave_up # None
    /\ Unwrap(gave_up).is_default
    /\ Unwrap(gave_up).last_healthy = None
    /\ Unwrap(gave_up).consecutive_failures = 24
    /\ Unwrap(gave_up) \notin Queued

\* is the pair of job j covered by a job of the set
Covered(j, jobs) == \E k \in jobs : k.addr = j.addr /\ k.service = j.service

\* is the service of job j listed in registry h
Registered(j, h) == j.addr \in DOMAIN h /\ j.service \in h[j.addr].services

C4_WitnessRetried ==
    /\ pc = "idle"
    /\ \E j \in Queued :
        ~j.is_default /\ j.last_healthy # None /\ j.consecutive_failures = 23

----------------------------------------------------------------------------
(* Properties of SpecAdmit *)

\* C5: every announced job on a clearnet address has that address as its
\* added_by; a hostname warned about for resolving to another address has
\* no job among those the request enqueued.
C5_AnnouncedAddressIsReporter ==
    /\ \A j \in Jobs :
        (~j.is_default /\ IsClearnet(j.addr)) => j.added_by = Some(j.addr[2])
    /\ \A w \in ret.warned :
        w[2] = "server ip does not match source ip" =>
            \A i \in 1..Len(ret.jobs) : ret.jobs[i].hostname # ToLowercase(w[1])

\* one request had a hostname on another address skipped, and its clearnet
\* hostname on the reporting address and its onion hostname admitted
C5_Witness ==
    /\ ret.op = "add_server_request"
    /\ ret.result = Ok("unit")
    /\ \E w \in ret.warned : w[2] = "server ip does not match source ip"
    /\ \E i, k \in 1..Len(ret.jobs) :
        /\ IsClearnet(ret.jobs[i].addr)
        /\ ~IsClearnet(ret.jobs[k].addr)
        /\ ret.jobs[i] \in Jobs /\ ret.jobs[k] \in Jobs

\* the jobs alive, with their numbers of copies
JobBag == queue (+) SetToBag({health_check[i] : i \in 1..Len(health_check)})

\* C7: no two jobs, in the queue or being probed, have the same address and
\* service.
C7_OneJobPerAddressAndService ==
    \A j, k \in BagToSet(JobBag) :
        (j.addr = k.addr /\ j.service = k.service) => (j = k /\ CopiesIn(j, JobBag) = 1)

----------------------------------------------------------------------------
(* Properties of SpecQueue *)

\* C6: with no default server seeded, the queue never holds more than
\* MAX_QUEUE_SIZE jobs.
C6_QueueWithinBound == HeapLen(queue) <= MAX_QUEUE_SIZE

----------------------------------------------------------------------------
(* Properties of SpecLive *)

\* a job of service s, pushed back after a successful probe, waits in the
\* queue, and the clock can reach the time it is due
WaitsHealthy(s) ==
    \E j \in Queued :
        /\ j.service = s
        /\ j.last_check # None /\ j.last_check = j.last_healthy
        /\ Unwrap(j.last_check) + HEALTH_CHECK_FREQ <= MaxTimeLive

\* a job of service s that was healthy before is popped
PoppedAgain(s) ==
    /\ pc = "popped"
    /\ Unwrap(health_check).service = s
    /\ Unwrap(health_check).last_healthy # None

\* the jobs thread keeps ticking
WorkerKeepsTicking == [](pc # "panicked")

NoNeverChecked == \A j \in Queued : j.last_check # None

\* C10: while the jobs thread keeps ticking and time advances, a job pushed
\* back after a successful probe is eventually popped again, whatever
\* announcements are interleaved.
C10_PushedBackJobResurfaces ==
    WorkerKeepsTicking => \A s \in LiveServices : WaitsHealthy(s) ~> PoppedAgain(s)

\* C10, amended: while the jobs thread keeps ticking and time advances, a job
\* pushed back after a successful probe is eventually popped again, provided
\* that from some time on no never-checked job is in the queue.
C10_ResurfacesOnceNoJobIsNew ==
    (WorkerKeepsTicking /\ <>[]NoNeverChecked) =>
        \A s \in LiveServices : WaitsHealthy(s) ~> PoppedAgain(s)

\* a job pushed back after a successful probe is popped again when due, with
\* no never-checked job in the queue
C10_Witness ==
    /\ \E s \in LiveServices : PoppedAgain(s)
    /\ Unwrap(health_check).last_check = Unwrap(health_check).last_healthy
    /\ NoNeverChecked

\* the step is a call of add_server_request (the jobs thread and the clock
\* stand still)
AdmissionStep ==
    /\ ret'.op = "add_server_request"
    /\ pc' = pc /\ now' = now /\ health_check' = health_check /\ checked' = checked

RECURSIVE SeqToBag(_)
SeqToBag(jobs) == IF jobs = <<>> THEN EmptyBag ELSE SetToBag({Head(jobs)}) (+) SeqToBag(Tail(jobs))

\* C11: a call of add_server_request that returns an error leaves the queue
\* and the registry as they were; one that returns Ok puts all its jobs in
\* the queue, each with is_default false, added_by the reporting address,
\* last_check and last_healthy absent and consecutive_failures 0, and
\* leaves the registry as it was.
C11_RejectedRequestChangesNothing ==
    [][AdmissionStep =>
        /\ healthy' = healthy
        /\ ~IsOk(ret'.result) => queue' = queue
        /\ IsOk(ret'.result) =>
            /\ ret'.jobs # <<>>
            /\ queue' = queue (+) SeqToBag(ret'.jobs)
            /\ \A i \in 1..Len(ret'.jobs) :
                /\ ret'.jobs[i].is_default = FALSE
                /\ ret'.jobs[i].added_by = ret'.added_by
                /\ ret'.jobs[i].last_check = None
                /\ ret'.jobs[i].last_healthy = None
                /\ ret'.jobs[i].consecutive_failures = 0
      ]_vars

\* six jobs that passed the filters were rejected by the second size check,
\* with 498 jobs in the queue
C11_Witness ==
    /\ ret.op = "add_server_request"
    /\ ret.result = Err("queue size exceeded")
    /\ HeapLen(queue) < MAX_QUEUE_SIZE
    /\ HeapLen(queue) + MAX_SERVICES_PER_REQUEST > MAX_QUEUE_SIZE

----------------------------------------------------------------------------
(* Properties of SpecProbe *)

\* check_server gave the error of a failed compatibility check
IncompatibleAnswer ==
    checked \in {Err("incompatible networks"), Err("incompatible protocol versions"),
                 Err("incompatible hash function")}

\* the services registry h lists for address a
ServicesAt(h, a) == IF a \in DOMAIN h THEN h[a].services ELSE {}

\* C12: features that fail the compatibility check make the probe a failed
\* one: check_server gives Ok only with compatible features; after an
\* incompatible answer the registry gains no service and loses the service
\* of a job that was healthy, and the job gets one more consecutive failure
\* while its last_healthy stays as it was.
C12_IncompatiblePeerIsFailure ==
    [][/\ (pc' \in {"checked", "updated"} /\ IsOk(checked')) =>
              IsOk(verify_compatibility(checked'[2]))
       /\ (pc = "checked" /\ pc' # "checked" /\ IncompatibleAnswer) =>
              /\ \A a \in DOMAIN healthy' :
                    a \in DOMAIN healthy /\ healthy'[a].services \subseteq healthy[a].services
              /\ was_healthy =>
                    Unwrap(health_check).service
                        \notin ServicesAt(healthy', Unwrap(health_check).addr)
       /\ (pc = "updated" /\ pc' = "idle" /\ IncompatibleAnswer) =>
              LET job == Unwrap(health_check)
                  after == [job EXCEPT !.last_check = Some(now),
                                       !.consecutive_failures = job.consecutive_failures + 1]
              IN  \/ queue' = queue (+) SetToBag({after}) /\ gave_up' = gave_up
                  \/ queue' = queue /\ gave_up' = Some(after)
      ]_vars

\* a healthy job was answered with incompatible features: its service is
\* off the registry
C12_Witness ==
    /\ pc = "updated"
    /\ IncompatibleAnswer
    /\ was_healthy
    /\ Unwrap(health_check).service \notin ServicesAt(healthy, Unwrap(health_check).addr)

\* C13: the features of a registry entry are those of the last successful
\* probe of a service of its address: when a cycle with a successful probe
\* ends, the entry of the job's address has the features the probe returned.
C13_FeaturesOfLastSuccessfulProbe ==
    [][(pc = "updated" /\ pc' = "idle" /\ IsOk(checked)) =>
          /\ Unwrap(health_check).addr \in DOMAIN healthy'
          /\ healthy'[Unwrap(health_check).addr].features = checked[2]
      ]_vars

\* C14: every entry of the registry lists at least one service, in every
\* state, as does every ServerEntry get_servers returns; a step that is an
\* admission leaves the registry as it was.
C14_NoEntryWithoutService ==
    [][/\ \A a \in DOMAIN healthy' : healthy'[a].services # {}
       /\ \A e \in get_servers(healthy') : e[3][2] # {}
       /\ (pc' = pc /\ now' = now /\ ret'.op # "none") => healthy' = healthy
      ]_vars

\* the failed probe of the only healthy service of an address has removed
\* the entry of the address, while another address keeps its entry
C14_Witness ==
    /\ pc = "updated"
    /\ ~IsOk(checked)
    /\ was_healthy
    /\ Unwrap(health_check).addr \notin DOMAIN healthy
    /\ healthy # << >>

\* registries h and g differ at most in whether service s is listed for
\* address a, and in the entry of a being there for it
SameButFor(h, g, a, s) ==
    /\ DOMAIN h \ {a} = DOMAIN g \ {a}
    /\ \A b \in DOMAIN h \ {a} : g[b] = h[b]
    /\ ServicesAt(g, a) \ {s} = ServicesAt(h, a) \ {s}
    /\ a \in DOMAIN g <=> ServicesAt(g, a) # {}
    /\ (a \in DOMAIN h /\ a \in DOMAIN g) =>
          g[a].hostname = h[a].hostname /\ g[a].features = h[a].features

\* C19: the registry changes only in the registry step of a cycle, and there
\* only in whether the service of the job is listed for the address of the
\* job; the other services of that address and the entries of the other
\* addresses stay.  When a job that was healthy is probed with success, or
\* one that was not is probed without, the registry stays as it is.
C19_OnlyTheProbedService ==
    [][IF pc = "checked" /\ pc' # "checked"
       THEN /\ SameButFor(healthy, healthy', Unwrap(health_check).addr,
                          Unwrap(health_check).service)
            /\ (was_healthy <=> IsOk(checked)) => healthy' = healthy
       ELSE healthy' = healthy
      ]_vars

\* the probe of a healthy service failed and the service is gone from the
\* registry, which lists another service for the address and another address
C19_Witness ==
    /\ pc = "updated"
    /\ ~IsOk(checked)
    /\ was_healthy
    /\ Unwrap(health_check).addr \in DOMAIN healthy
    /\ Unwrap(health_check).service \notin healthy[Unwrap(health_check).addr].services
    /\ DOMAIN healthy # {Unwrap(health_check).addr}

----------------------------------------------------------------------------
(* Properties of SpecOnion *)

\* a job check_server has no transport for: TLS on an onion address, or any
\* onion service when no proxy is configured
Unsupported(job) ==
    ~IsClearnet(job.addr) /\ (job.service[1] = "Ssl" \/ tor_proxy = None)

\* C17: the registry lists no TLS service for an onion address, and no onion
\* address when no proxy is configured.  Every probe of a job on such a
\* transport fails: in the queue it was never healthy, once probed it is a
\* default job, and the cycle gives up on it when it was announced or has
\* failed MAX_CONSECUTIVE_FAILURES times.
C17_UnsupportedTransportNeverHealthy ==
    /\ [](\A a \in DOMAIN healthy :
            ~IsClearnet(a) => /\ tor_proxy # None
                              /\ \A s \in healthy[a].services : s[1] # "Ssl")
    /\ []((pc \in {"checked", "updated"} /\ Unsupported(Unwrap(health_check)))
            => ~IsOk(checked))
    /\ [](\A j \in BagToSet(queue) :
            Unsupported(j) =>
                /\ j.last_healthy = None
                /\ j.last_check # None =>
                      /\ j.is_default
                      /\ j.consecutive_failures \in 1..(MAX_CONSECUTIVE_FAILURES - 1))
    /\ [][(pc = "updated" /\ pc' = "idle" /\ Unsupported(Unwrap(health_check))) =>
            LET job == Unwrap(health_check)
                dropped == ~job.is_default
                           \/ job.consecutive_failures + 1 = MAX_CONSECUTIVE_FAILURES
            IN  /\ dropped => queue' = queue /\ gave_up' # None /\ gave_up' # gave_up
                /\ ~dropped => gave_up' = gave_up /\ queue' # queue
         ]_vars

\* the default TLS job of the onion server was given up after
\* MAX_CONSECUTIVE_FAILURES failed probes
C17_Witness ==
    /\ gave_up # None
    /\ Unwrap(gave_up).is_default
    /\ Unwrap(gave_up).service[1] = "Ssl"
    /\ Unwrap(gave_up).consecutive_failures = MAX_CONSECUTIVE_FAILURES
    /\ Unwrap(gave_up).last_healthy = None

\* an announced onion job was given up after its first probe, while the
\* registry lists a TCP service of the onion server
C17_WitnessAnnounced ==
    /\ gave_up # None
    /\ ~Unwrap(gave_up).is_default
    /\ Unsupported(Unwrap(gave_up))
    /\ Unwrap(gave_up).consecutive_failures = 1
    /\ healthy # << >>

----------------------------------------------------------------------------
(* Properties of SpecRetry: the bookkeeping of a job *)

\* the step that ends a cycle hands job j back: to the queue, or to nobody
HandedBack(j) ==
    \/ queue' = queue (+) SetToBag({j}) /\ gave_up' = gave_up
    \/ queue' = queue /\ gave_up' = Some(j)

\* j is job old after a probe that ended with result at time t
Bookkept(old, j, result, t) ==
    /\ j.addr = old.addr
    /\ j.hostname = old.hostname
    /\ j.service = old.service
    /\ j.is_default = old.is_default
    /\ j.added_by = old.added_by
    /\ j.last_check = Some(t)
    /\ IsOk(result) => j.last_healthy = Some(t) /\ j.consecutive_failures = 0
    /\ ~IsOk(result) => /\ j.last_healthy = old.last_healthy
                        /\ j.consecutive_failures = old.consecutive_failures + 1

\* C18: a cycle hands its job back with last_check at the current time; after
\* a successful probe last_healthy is that time too and consecutive_failures
\* is 0, after a failed probe last_healthy is as before and
\* consecutive_failures is one more. Every job in the queue has between 0 and
\* MAX_CONSECUTIVE_FAILURES - 1 failures, and none when its last_check is its
\* last_healthy.
C18_JobBookkeeping ==
    /\ [](\A j \in BagToSet(queue) :
            /\ j.consecutive_failures \in 0..(MAX_CONSECUTIVE_FAILURES - 1)
            /\ j.last_check = j.last_healthy => j.consecutive_failures = 0)
    /\ [][(pc = "updated" /\ pc' = "idle") =>
            \E j \in BagToSet(queue') \cup {g[1] : g \in {gave_up'} \ {None}} :
                /\ HandedBack(j)
                /\ Bookkept(Unwrap(health_check), j, checked, now)
         ]_vars

\* a job that had failed MAX_CONSECUTIVE_FAILURES - 1 times in a row is
\* healthy again, next to one that has failed that many times
C18_Witness ==
    /\ pc = "idle"
    /\ \E j \in BagToSet(queue) :
          j.consecutive_failures = MAX_CONSECUTIVE_FAILURES - 1 /\ j.last_healthy # None
    /\ \E j \in BagToSet(queue) :
          /\ j.consecutive_failures = 0
          /\ j.last_check = j.last_healthy
          /\ j.last_check # None
          /\ Unwrap(j.last_check) >= (MAX_CONSECUTIVE_FAILURES - 1) * HEALTH_CHECK_FREQ

----------------------------------------------------------------------------
(* Properties of SpecCaps *)

\* the hostnames a call has looked at: those of its jobs and of its warnings
Considered(r) ==
    {r.jobs[i].hostname : i \in 1..Len(r.jobs)} \cup {ToLowercase(w[1]) : w \in r.warned}

\* C16: a call of add_server_request that returns Ok has looked at no more
\* than MAX_SERVERS_PER_REQUEST hostnames, those it skipped with a warning
\* included, and has put at least 1 and at most MAX_SERVICES_PER_REQUEST
\* jobs in the queue, which has grown by that number.
C16_PerRequestCaps ==
    [][(AdmissionStep /\ IsOk(ret'.result)) =>
          /\ Cardinality(Considered(ret')) <= MAX_SERVERS_PER_REQUEST
          /\ Len(ret'.jobs) >= 1
          /\ Len(ret'.jobs) <= MAX_SERVICES_PER_REQUEST
          /\ HeapLen(queue') = HeapLen(queue) + Len(ret'.jobs)
      ]_vars

\* of four hostnames the one of 101 characters was among the three taken:
\* four jobs, of the two hostnames left, are in the queue
C16_Witness ==
    /\ ret.op = "add_server_request"
    /\ ret.result = Ok("unit")
    /\ \E w \in ret.warned : w[2] = "skipping invalid hostname"
    /\ Len(ret.jobs) = 4
    /\ HeapLen(queue) = 4

\* all three hostnames taken passed the filters: six jobs are in the queue
C16_WitnessSix ==
    /\ ret.op = "add_server_request"
    /\ ret.result = Ok("unit")
    /\ Len(ret.jobs) = MAX_SERVICES_PER_REQUEST
    /\ HeapLen(queue) = MAX_SERVICES_PER_REQUEST

----------------------------------------------------------------------------
(* Properties of SpecLock *)

\* a caller is inside a blocking name lookup
Resolving(t) == At(t) \in {"announce:resolve", "default:resolve"}

\* C15: a thread inside the name lookup of an admission call holds no guard
\* of the queue lock.
C15_NoLookupUnderQueueLock ==
    \A t \in Callers : Resolving(t) => "queue" \notin Holds(locks, t)

Threads == Callers \cup {JobsThread}

\* the lock thread t is to take next, and how: <<lock, "read" or "write">>
\* in a one-element set, or the empty set
Wants(t) ==
    IF t = JobsThread
    THEN IF pc = "idle" /\ t \notin locks.queue.readers THEN {<<"queue", "read">>}
         ELSE IF pc = "peeked" /\ locks.queue.writer # Some(t) THEN {<<"queue", "write">>}
         ELSE IF pc = "checked" /\ CallsRegistry /\ locks.healthy.writer # Some(t)
              THEN {<<"healthy", "write">>}
         ELSE IF pc = "updated" /\ CallsPush /\ locks.queue.writer # Some(t)
              THEN {<<"queue", "write">>}
         ELSE {}
    ELSE IF At(t) \in {"announce:lock", "default:lock"} THEN {<<"queue", "write">>}
         ELSE IF At(t) = "list:lock" THEN {<<"healthy", "read">>}
         ELSE {}

\* thread t is inside RwLock::read or RwLock::write and cannot return
Blocked(t) ==
    \E w \in Wants(t) : IF w[2] = "read" THEN ~CanRead(locks, w[1]) ELSE ~CanWrite(locks, w[1])

Holders(lock) ==
    {t \in Threads : locks[lock].writer = Some(t) \/ t \in locks[lock].readers}

\* the position of run_health_check moves from one step of the cycle to the
\* next one only; the cycle pops, changes the registry and pushes in the
\* step for it only
CycleInOrder ==
    /\ pc' # pc => <<pc, pc'>> \in {<<"idle", "peeked">>, <<"peeked", "popped">>,
                                    <<"popped", "checked">>, <<"checked", "updated">>,
                                    <<"checked", "panicked">>, <<"updated", "idle">>}
    /\ HeapLen(queue') < HeapLen(queue) => pc = "peeked" /\ pc' = "popped"
    /\ healthy' # healthy => pc = "checked" /\ pc' = "updated"
    /\ (pc = "updated" /\ pc' = "idle" /\ CallsPush) => HeapLen(queue') = HeapLen(queue) + 1
    /\ (pc' # pc /\ pc \notin {"peeked", "updated"}) => queue' = queue

\* C20: the cycle goes through pop, probe, registry and push in this order
\* and takes a lock for each step but the probe: its thread holds the queue
\* lock only to peek, pop or push, the registry lock only to bring the
\* registry up to date, and no lock while it probes.  No thread holds a guard
\* of both locks, a caller of get_servers holds a read guard of the registry
\* only, and no thread that waits for a lock waits for a thread that holds
\* it and waits itself.
C20_LockDiscipline ==
    /\ [][CycleInOrder]_vars
    /\ [](\A t \in Threads : Cardinality(Holds(locks, t)) <= 1)
    /\ [](/\ JobsThread \in locks.queue.readers => pc = "idle"
          /\ locks.queue.writer = Some(JobsThread) => pc \in {"peeked", "updated"}
          /\ locks.healthy.writer = Some(JobsThread) => pc = "checked"
          /\ JobsThread \notin locks.healthy.readers
          /\ pc = "popped" => Holds(locks, JobsThread) = {})
    /\ [](\A t \in Callers :
            /\ "queue" \in Holds(locks, t) =>
                  /\ locks.queue.writer = Some(t)
                  /\ At(t) \in {"announce:locked", "announce:resolve", "default:locked"}
            /\ "healthy" \in Holds(locks, t) =>
                  /\ t \in locks.healthy.readers
                  /\ At(t) = "list:locked")
    /\ [](\A t \in Threads : \A w \in Wants(t) :
            Blocked(t) => \A h \in Holders(w[1]) : ~Blocked(h))

\* the thread of the cycle holds the registry lock and a caller the queue
\* lock, while the other caller waits for the registry lock
C20_Witness ==
    /\ locks.healthy.writer = Some(JobsThread)
    /\ \E t \in Callers : locks.queue.writer = Some(t)
    /\ \E t \in Callers : At(t) = "list:lock" /\ Blocked(t)

====
